---- MODULE Spec2Model ----
(***************************************************************************)
(* Model of the local-agent session loop (interactions.ts), the task       *)
(* continuation state machine (tasks/task-manager.ts) and their use of     *)
(* the provider factory.  Text is modelled as TLA+ strings and the         *)
(* heuristics as the substring searches the code performs.                 *)
(***************************************************************************)
EXTENDS Integers, Sequences, FiniteSets, TLC

(***************************************************************************)
(* Bounds and input sets.                                                  *)
(***************************************************************************)

MaxCalls == 5

MaxCompleted == 1

MaxNext == 5

MaxToolsUsed == 1

CeilingCalls == 51

Descriptions == { "Create a project called demo", "build the docs" }

ToolNames == { "write_file", "read_file" }

MaxLines == 2

MaxInFlight == 2

\* Lines the user may submit.
Inputs ==
  { "", "/status", "/complete", "/done", "/help",
    "what is 2+2", "Create a project called demo" }

\* Texts the model may answer with, in a primary or a summary call.
ModelTexts ==
  { "Working on it", "Now I will create package.json", "The task is complete" }

Responses ==
  { "Working on it",
    "The task is complete",
    "Ready to run",
    "Nothing more to do",
    "Now I will create package.json",
    "Created folder demo\nNext step: add files" }

MaxHistory == 11

MaxPending == 2

\* The longest model string parseModelString is called with directly.
MaxModelLen == 5

MaxInstances == 2

\* Provider names passed to getProvider.
ProviderNames == { "openai", "OpenAI", "openrouter", "mistral", "constructor" }

\* Model strings passed to getModelFromString.
ModelStrings == { "gpt-4o", "OpenRouter/meta/llama", "mistral/large", "constructor/x" }

\* The keys objects passed to getModelFromString; openrouter is "" when the
\* object has no such key.
KeySets == { [ openrouter |-> k ] : k \in { "", "sk-1", "sk-2" } }

(***************************************************************************)
(* String primitives of the JavaScript runtime used by the code.           *)
(***************************************************************************)

\* p occurs in s as a contiguous substring.
Occurs(s, p) ==
  \E i \in 1..(Len(s) - Len(p) + 1) : SubSeq(s, i, i + Len(p) - 1) = p

UpperChars == "ABCDEFGHIJKLMNOPQRSTUVWXYZ"

LowerChars == "abcdefghijklmnopqrstuvwxyz"

\* The lower-case letter of every upper-case letter.
LowerMap ==
  [ c \in { SubSeq(UpperChars, i, i) : i \in 1..Len(UpperChars) } |->
      LET i == CHOOSE j \in 1..Len(UpperChars) : SubSeq(UpperChars, j, j) = c
      IN SubSeq(LowerChars, i, i) ]

LowerChar(c) == IF c \in DOMAIN LowerMap THEN LowerMap[c] ELSE c

RECURSIVE LowerCased(_)
LowerCased(s) ==
  IF s = "" THEN ""
  ELSE LowerChar(SubSeq(s, 1, 1)) \o LowerCased(SubSeq(s, 2, Len(s)))

\* Index of the first occurrence of p in s, 0 when there is none.
IndexOf(s, p) ==
  IF Occurs(s, p)
  THEN CHOOSE i \in 1..(Len(s) - Len(p) + 1) :
         /\ SubSeq(s, i, i + Len(p) - 1) = p
         /\ \A j \in 1..(i - 1) : SubSeq(s, j, j + Len(p) - 1) # p
  ELSE 0

RECURSIVE Split(_, _)
\* String.prototype.split on a one-character separator.
Split(s, sep) ==
  LET i == IndexOf(s, sep)
  IN IF i = 0 THEN <<s>>
     ELSE <<SubSeq(s, 1, i - 1)>> \o Split(SubSeq(s, i + 1, Len(s)), sep)

RECURSIVE Join(_, _)
\* Array.prototype.join.
Join(arr, sep) ==
  IF Len(arr) = 0 THEN ""
  ELSE IF Len(arr) = 1 THEN arr[1]
  ELSE arr[1] \o sep \o Join(Tail(arr), sep)

\* The upper-case letter of every lower-case letter.
UpperMap ==
  [ c \in { SubSeq(LowerChars, i, i) : i \in 1..Len(LowerChars) } |->
      LET i == CHOOSE j \in 1..Len(LowerChars) : SubSeq(LowerChars, j, j) = c
      IN SubSeq(UpperChars, i, i) ]

UpperChar(c) == IF c \in DOMAIN UpperMap THEN UpperMap[c] ELSE c

RECURSIVE ToUpperCase(_)
\* String.prototype.toUpperCase on the ASCII texts of the model.
ToUpperCase(s) ==
  IF s = "" THEN ""
  ELSE UpperChar(SubSeq(s, 1, 1)) \o ToUpperCase(SubSeq(s, 2, Len(s)))

\* The texts the model's inputs are made of, and their lines.
InputTexts ==
  Responses \cup Descriptions \cup ToolNames \cup Inputs \cup ModelTexts
    \cup { "continue", "unknown-tool" }
    \cup ProviderNames \cup { Split(m, "/")[1] : m \in ModelStrings }

KnownTexts ==
  InputTexts \cup UNION { { Split(s, "\n")[i] : i \in DOMAIN Split(s, "\n") } : s \in InputTexts }

\* toLowerCase of the known texts, computed once.
LowerTable == [ s \in KnownTexts |-> LowerCased(s) ]

\* The entry of s in a table of lower-cased texts, computed when it has none.
LowerIn(table, s) == IF s \in DOMAIN table THEN table[s] ELSE LowerCased(s)

\* String.prototype.toLowerCase on the ASCII texts of the model.
ToLowerCase(s) == LowerIn(LowerTable, s)

\* The phrases the code searches for.
KnownPhrases ==
  { "task is complete", "task completed", "project is complete",
    "all done", "finished creating", "everything is set up",
    "application is ready", "ready to use", "setup complete",
    "you can now run", "you can now use", "all files have been created",
    "created folder", "created directory", "made folder",
    "next step", "continue", "now i will", "now i need to",
    "partially complete", "still need", "remaining",
    "created basic", "initial setup", "first step",
    "proceeding", "moving on", "next logical step",
    "will now", "let me", "i will create", "i will add",
    "setting up", "configuring", "installing",
    "let me now", "i should", "i need to",
    "task complete", "finished", "done",
    "fully functional", "all files created",
    "successfully created",
    "application is now ready", "setup is complete",
    "all necessary files", "ready to run", "task is now complete",
    "have successfully", "is now fully", "completed the",
    "you can now", "everything needed", "all set up",
    "that completes", "this finishes", "no further steps",
    "that's all", "nothing more",
    "no additional", "task finished", "work is complete",
    "create_directory", "write_file", "edit_file",
    "create", "build", "setup", "make", "develop", "implement", "generate",
    "react app", "project", "application", "website", "api", "server",
    "all files", "complete", "full", "entire", "whole",
    "created", "added", "installed", "configured",
    "next, i will", "app", "npm start", "npm run",
    "now i", "next i", "i will", "creating" }

\* For every known text, in either case, the searched phrases that occur in it.
OccursTable ==
  [ s \in KnownTexts \cup { LowerTable[x] : x \in KnownTexts } |->
      { p \in KnownPhrases : Occurs(s, p) } ]

\* The answer of a table of occurrences, computed when it has none.
IncludesIn(table, s, p) ==
  IF s \in DOMAIN table /\ p \in KnownPhrases
  THEN p \in table[s]
  ELSE Occurs(s, p)

\* String.prototype.includes.
Includes(s, p) == IncludesIn(OccursTable, s, p)

IsSpace(c) == c \in {" ", "\n", "\t", "\r"}

RECURSIVE TrimStart(_)
TrimStart(s) ==
  IF s # "" /\ IsSpace(SubSeq(s, 1, 1)) THEN TrimStart(SubSeq(s, 2, Len(s))) ELSE s

RECURSIVE TrimEnd(_)
TrimEnd(s) ==
  IF s # "" /\ IsSpace(SubSeq(s, Len(s), Len(s)))
  THEN TrimEnd(SubSeq(s, 1, Len(s) - 1)) ELSE s

\* String.prototype.trim.
Trim(s) == TrimEnd(TrimStart(s))

\* Array.prototype.some over a pattern list: some pattern occurs in s.
SomeIncluded(patterns, s) == \E i \in DOMAIN patterns : Includes(s, patterns[i])

\* Array.prototype.includes.
ArrayIncludes(arr, x) == \E i \in DOMAIN arr : arr[i] = x

\* line.replace(/next step:?|next, i will/i, ''): the leftmost match of the
\* alternation is removed, the first alternative winning at equal position.
ReplaceNextMarker(line) ==
  LET low == ToLowerCase(line)
      a == IndexOf(low, "next step")
      b == IndexOf(low, "next, i will")
      useA == a # 0 /\ (b = 0 \/ a <= b)
      start == IF useA THEN a ELSE b
      len == IF useA
             THEN (IF SubSeq(low, a + 9, a + 9) = ":" THEN 10 ELSE 9)
             ELSE 12
  IN IF a = 0 /\ b = 0 THEN line
     ELSE SubSeq(line, 1, start - 1) \o SubSeq(line, start + len, Len(line))

(***************************************************************************)
(* TaskState and the TaskManager object (tasks/task-state.ts,              *)
(* tasks/task-manager.ts).                                                 *)
(***************************************************************************)

IDLE == "idle"

STARTING == "starting"

IN_PROGRESS == "in_progress"

AWAITING_TOOL == "awaiting_tool"

COMPLETED == "completed"

FAILED == "failed"

TaskState == {IDLE, STARTING, IN_PROGRESS, AWAITING_TOOL, COMPLETED, FAILED}

\* The JavaScript value undefined (an optional argument or field left out).
Undefined == "undefined"

\* JavaScript truthiness of a value that is a string or undefined.
Truthy(v) == v # Undefined /\ v # ""

maxSteps == 50

maxResponsesWithoutTools == 5

continuationPatterns ==
  << "created folder", "created directory", "made folder",
     "next step", "continue", "now i will", "now i need to",
     "partially complete", "still need", "remaining",
     "created basic", "initial setup", "first step",
     "proceeding", "moving on", "next logical step",
     "will now", "let me", "i will create", "i will add",
     "setting up", "configuring", "installing",
     "let me now", "i should", "i need to" >>

completionPatterns ==
  << "task complete", "finished", "done", "ready to use",
     "fully functional", "all files created", "project is complete",
     "successfully created", "everything is set up",
     "application is now ready", "setup is complete",
     "all necessary files", "ready to run", "task is now complete",
     "have successfully", "is now fully", "completed the",
     "you can now", "everything needed", "all set up" >>

stoppingPatterns ==
  << "that completes", "this finishes", "no further steps",
     "that's all", "nothing more", "all done",
     "no additional", "task finished", "work is complete" >>

continuationTools == << "create_directory", "write_file", "edit_file" >>

strongCompletionPatterns ==
  << "task is complete", "task completed", "project is complete",
     "all done", "finished creating", "everything is set up",
     "application is ready", "ready to use", "setup complete",
     "you can now run", "you can now use", "all files have been created" >>

multiStepKeywords ==
  << "create", "build", "setup", "make", "develop", "implement", "generate",
     "react app", "project", "application", "website", "api", "server",
     "all files", "complete", "full", "entire", "whole" >>

\* The fields of a TaskManager right after construction.
NewTaskManager ==
  [ state |-> IDLE,
    taskDescription |-> "",
    completedSteps |-> << >>,
    nextSteps |-> << >>,
    toolsUsed |-> << >>,
    stepCount |-> 0,
    lastResponseWithoutTools |-> 0,
    lastToolUsed |-> "",
    consecutiveNonToolResponses |-> 0 ]

isMultiStepTask(prompt) == SomeIncluded(multiStepKeywords, ToLowerCase(prompt))

\* resetTask leaving the step counter as it is.
resetTask_KeepsCount(t) ==
  [ t EXCEPT !.state = IDLE,
             !.taskDescription = "",
             !.completedSteps = << >>,
             !.nextSteps = << >>,
             !.toolsUsed = << >>,
             !.lastResponseWithoutTools = 0,
             !.lastToolUsed = "",
             !.consecutiveNonToolResponses = 0 ]

resetTask(t) ==
  [ t EXCEPT !.state = IDLE,
             !.taskDescription = "",
             !.completedSteps = << >>,
             !.nextSteps = << >>,
             !.toolsUsed = << >>,
             !.stepCount = 0,
             !.lastResponseWithoutTools = 0,
             !.lastToolUsed = "",
             !.consecutiveNonToolResponses = 0 ]

\* The test analyzeTaskRequirements makes on the lower-cased description.
IsProjectDescription(lowerDesc) ==
  /\ Includes(lowerDesc, "create")
  /\ (Includes(lowerDesc, "project") \/ Includes(lowerDesc, "application"))

analyzeTaskRequirements(t, description) ==
  IF IsProjectDescription(ToLowerCase(description))
  THEN [ t EXCEPT !.nextSteps =
           << "Create project directory",
              "Initialize configuration files",
              "Set up basic structure",
              "Install dependencies" >> ]
  ELSE t

transitionToInProgress(t) == [ t EXCEPT !.state = IN_PROGRESS ]

\* startTask without the reset of a task that is still live.
startTask_NoReset(t, description) ==
  LET t2 == [ t EXCEPT !.taskDescription = description,
                       !.state = STARTING,
                       !.stepCount = 0 ]
  IN transitionToInProgress(analyzeTaskRequirements(t2, description))

startTask(t, description) ==
  LET t1 == IF t.state # IDLE THEN resetTask(t) ELSE t
      t2 == [ t1 EXCEPT !.taskDescription = description,
                        !.state = STARTING,
                        !.stepCount = 0 ]
  IN transitionToInProgress(analyzeTaskRequirements(t2, description))

\* recordToolUse without the test of the state.
recordToolUse_AnyState(t, toolName) ==
  [ t EXCEPT !.toolsUsed = Append(@, toolName), !.state = AWAITING_TOOL ]

recordToolUse(t, toolName) ==
  LET t1 == [ t EXCEPT !.toolsUsed = Append(@, toolName) ]
  IN IF t1.state = IN_PROGRESS THEN [ t1 EXCEPT !.state = AWAITING_TOOL ] ELSE t1

\* The test extractAccomplishment makes on a lower-cased line.
IsAccomplishmentLine(lowerLine) ==
  \/ Includes(lowerLine, "created")
  \/ Includes(lowerLine, "added")
  \/ Includes(lowerLine, "installed")
  \/ Includes(lowerLine, "configured")

\* The smallest index of a non-empty set of indices.
FirstIndex(hits) == CHOOSE i \in hits : \A j \in hits : i <= j

\* The first of the lines whose index is in hits; found = FALSE stands for null.
FirstLine(lines, hits) ==
  IF hits = {} THEN [ found |-> FALSE, line |-> "" ]
  ELSE [ found |-> TRUE, line |-> lines[FirstIndex(hits)] ]

\* The first of the lines that names an accomplishment.
FirstAccomplishment(lines) ==
  FirstLine(lines, { i \in DOMAIN lines : IsAccomplishmentLine(ToLowerCase(lines[i])) })

extractAccomplishment(response) == FirstAccomplishment(Split(response, "\n"))

\* One iteration of the loop of extractNextSteps: the section flag and the
\* steps after a line, given the flag and the steps before it.
ScanLine(line, lowerLine, scan) ==
  IF Includes(lowerLine, "next step") \/ Includes(lowerLine, "next, i will")
  THEN [ nextStepSection |-> TRUE,
         steps |-> Append(scan.steps, Trim(ReplaceNextMarker(line))) ]
  ELSE [ nextStepSection |->
           IF scan.nextStepSection
              /\ (Includes(lowerLine, "done") \/ Len(lowerLine) = 0)
           THEN FALSE ELSE scan.nextStepSection,
         steps |->
           IF scan.nextStepSection /\ Trim(lowerLine) # ""
              /\ ~Includes(lowerLine, "done")
           THEN Append(scan.steps, Trim(line)) ELSE scan.steps ]

RECURSIVE NextStepScan(_, _, _)
\* The loop of extractNextSteps from line i on.
NextStepScan(lines, i, scan) ==
  IF i > Len(lines) THEN scan.steps
  ELSE NextStepScan(lines, i + 1, ScanLine(lines[i], ToLowerCase(lines[i]), scan))

extractNextSteps(response) ==
  NextStepScan(Split(response, "\n"), 1, [ nextStepSection |-> FALSE, steps |-> << >> ])

\* nextSteps.find(...): the first next step that includes the accomplishment.
FindMatchingNextStep(nextSteps, lowerAccomplishment) ==
  FirstLine(nextSteps, { i \in DOMAIN nextSteps :
                           Includes(ToLowerCase(nextSteps[i]), lowerAccomplishment) })

\* nextSteps.filter(step => step !== matchingNextStep) when a match was found.
RemoveStep(nextSteps, match) ==
  IF match.found /\ Truthy(match.line)
  THEN SelectSeq(nextSteps, LAMBDA step : step # match.line)
  ELSE nextSteps

\* The first part of updateTaskProgress, given the extracted accomplishment.
RecordAccomplishment(t, accomplishment) ==
  IF accomplishment.found /\ Truthy(accomplishment.line)
  THEN [ t EXCEPT !.completedSteps = Append(@, accomplishment.line),
                  !.nextSteps = RemoveStep(@, FindMatchingNextStep(
                                     @, ToLowerCase(accomplishment.line))) ]
  ELSE t

updateTaskProgress(t, response, toolUsed) ==
  [ RecordAccomplishment(t, extractAccomplishment(response))
      EXCEPT !.nextSteps = @ \o extractNextSteps(response) ]

IsContinuationTool(toolUsed) ==
  Truthy(toolUsed) /\ SomeIncluded(continuationTools, toolUsed)

hasExplicitCompletionSignal(response) ==
  SomeIncluded(strongCompletionPatterns, ToLowerCase(response))

\* shouldMarkComplete deciding on the completionPatterns field, whatever tool
\* was used on the turn.
shouldMarkComplete_AnyPattern(t, response, toolUsed) ==
  \/ hasExplicitCompletionSignal(response)
  \/ SomeIncluded(completionPatterns, ToLowerCase(response))

shouldMarkComplete(t, response, toolUsed) ==
  IF IsContinuationTool(toolUsed) THEN FALSE
  ELSE hasExplicitCompletionSignal(response)

\* The test isProjectCreationTask makes on the lower-cased description.
IsCreationDescription(lowerDesc) ==
  /\ (Includes(lowerDesc, "create") \/ Includes(lowerDesc, "build"))
  /\ \/ Includes(lowerDesc, "project")
     \/ Includes(lowerDesc, "app")
     \/ Includes(lowerDesc, "application")
     \/ Includes(lowerDesc, "website")

isProjectCreationTask(t) == IsCreationDescription(ToLowerCase(t.taskDescription))

\* The tests isTaskComplete makes on the lower-cased response.
IsCompleteText(t, lowerResponse) ==
  \/ SomeIncluded(completionPatterns, lowerResponse)
  \/ SomeIncluded(stoppingPatterns, lowerResponse)
  \/ /\ isProjectCreationTask(t)
     /\ \/ Includes(lowerResponse, "npm start")
        \/ Includes(lowerResponse, "npm run")
        \/ Includes(lowerResponse, "you can now")

\* The original completion check; no caller is left in the class.
isTaskComplete(t, response) == IsCompleteText(t, ToLowerCase(response))

hasContinuationIndicators(response) ==
  SomeIncluded(continuationPatterns, ToLowerCase(response))

completeTask(t) == [ t EXCEPT !.state = COMPLETED ]

\* The head of processResponse returning to IN_PROGRESS from whatever state.
CountResponse_AlwaysInProgress(t, toolUsed) ==
  [ t EXCEPT !.state = IN_PROGRESS,
             !.stepCount = @ + 1,
             !.lastToolUsed = IF Truthy(toolUsed) THEN toolUsed ELSE @,
             !.consecutiveNonToolResponses = IF Truthy(toolUsed) THEN 0 ELSE @ + 1,
             !.lastResponseWithoutTools = IF Truthy(toolUsed) THEN 0 ELSE @ + 1 ]

\* The head of processResponse: the state leaves AWAITING_TOOL, the step is
\* counted and the tool counters follow the use of a tool.
CountResponse(t, toolUsed) ==
  [ t EXCEPT !.state = IF @ = AWAITING_TOOL THEN IN_PROGRESS ELSE @,
             !.stepCount = @ + 1,
             !.lastToolUsed = IF Truthy(toolUsed) THEN toolUsed ELSE @,
             !.consecutiveNonToolResponses = IF Truthy(toolUsed) THEN 0 ELSE @ + 1,
             !.lastResponseWithoutTools = IF Truthy(toolUsed) THEN 0 ELSE @ + 1 ]

\* The tail of processResponse: the completion checks after the update.
CheckCompletion(t, response, toolUsed) ==
  IF shouldMarkComplete(t, response, toolUsed) THEN completeTask(t)
  ELSE IF t.stepCount >= maxSteps THEN completeTask(t)
  ELSE IF /\ t.consecutiveNonToolResponses >= maxResponsesWithoutTools
          /\ hasExplicitCompletionSignal(response)
       THEN completeTask(t)
  ELSE t

processResponse(t, response, toolUsed) ==
  CheckCompletion(updateTaskProgress(CountResponse(t, toolUsed), response, toolUsed),
                  response, toolUsed)

ReasonMarkedComplete == "Task marked as complete"

ReasonMaxSteps == "Reached maximum steps (" \o ToString(maxSteps) \o ")"

ReasonNoToolUsage ==
  "No tool usage for " \o ToString(maxResponsesWithoutTools) \o " responses"

getCompletionStatus(t) ==
  IF t.state = COMPLETED
  THEN [ isComplete |-> TRUE, reason |-> ReasonMarkedComplete, stepCount |-> t.stepCount ]
  ELSE IF t.stepCount >= maxSteps
  THEN [ isComplete |-> TRUE, reason |-> ReasonMaxSteps, stepCount |-> t.stepCount ]
  ELSE IF t.lastResponseWithoutTools >= maxResponsesWithoutTools
  THEN [ isComplete |-> TRUE, reason |-> ReasonNoToolUsage, stepCount |-> t.stepCount ]
  ELSE [ isComplete |-> FALSE, reason |-> Undefined, stepCount |-> t.stepCount ]

forceComplete(t) == [ t EXCEPT !.state = COMPLETED ]

IsFileTool(tool) == Includes(tool, "write_file") \/ Includes(tool, "create")

\* The checks of shouldContinueAutomatically, given the lower-cased response
\* and the number of file tools used so far.
ContinueChecks(t, response, toolUsed, lowerResponse, fileToolsUsed) ==
  IF t.state # IN_PROGRESS /\ t.state # AWAITING_TOOL THEN FALSE
  ELSE IF t.stepCount >= maxSteps THEN FALSE
  ELSE IF hasExplicitCompletionSignal(response) THEN FALSE
  ELSE IF /\ isProjectCreationTask(t)
          /\ \/ IsContinuationTool(toolUsed)
             \/ /\ t.stepCount < 10
                /\ Len(t.completedSteps) > 0
                /\ \/ Includes(lowerResponse, "now i")
                   \/ Includes(lowerResponse, "next i")
                   \/ Includes(lowerResponse, "i will")
                   \/ Includes(lowerResponse, "let me")
                   \/ Includes(lowerResponse, "i need to")
                   \/ Includes(lowerResponse, "i should")
                   \/ /\ t.lastToolUsed = "create_directory"
                      /\ ~ArrayIncludes(t.toolsUsed, "write_file")
                   \/ (fileToolsUsed > 0 /\ fileToolsUsed < 5)
       THEN TRUE
  ELSE IF IsContinuationTool(toolUsed) THEN TRUE
  ELSE IF SomeIncluded(continuationPatterns, lowerResponse) THEN TRUE
  ELSE IF \/ Includes(lowerResponse, "creating")
          \/ Includes(lowerResponse, "setting up")
          \/ Includes(lowerResponse, "configuring")
          \/ Includes(lowerResponse, "installing")
       THEN TRUE
  ELSE FALSE

shouldContinueAutomatically(t, response, toolUsed) ==
  ContinueChecks(t, response, toolUsed, ToLowerCase(response),
                 Len(SelectSeq(t.toolsUsed, IsFileTool)))

isTaskActive(t) == t.state \in {IN_PROGRESS, AWAITING_TOOL, STARTING}

getTaskContext(t) ==
  [ isMultiStep |-> isTaskActive(t),
    taskDescription |-> t.taskDescription,
    completedSteps |-> t.completedSteps,
    nextSteps |-> t.nextSteps,
    isComplete |-> (t.state = COMPLETED) ]

(***************************************************************************)
(* State.                                                                  *)
(***************************************************************************)

VARIABLES
  taskManager,          \* the fields of the session's TaskManager
  conversationHistory,  \* ConversationMessage[] of runInteractiveSession
  sessionLog,           \* the blocks appended to the session file
  turns,                \* the executions of processUserInput in progress
  lineBuffer,           \* the text readline holds in its input line
  promptShown,          \* rl.prompt() was the last thing done to the terminal
  linesRead,            \* number of "line" events handled so far
  lastCall,             \* history: the last TaskManager method called
  lastStep,             \* history: what the last step of the session did
  processExit,          \* "running", or the way the process has exited
  providers,            \* ProviderFactory.providers, the provider cache
  instances,            \* the provider objects constructed so far
  environment,          \* process.env.OPENROUTER_API_KEY, "" when unset
  calls,                \* the factory calls awaiting their provider
  lastFactory,          \* history: the last factory call to start or settle
  lastContext,          \* history: the context block built by the last step
  lastParse             \* history: the last direct call of parseModelString

vars == << taskManager, conversationHistory, sessionLog, turns, lineBuffer,
           promptShown, linesRead, lastCall, lastStep, processExit,
           providers, instances, environment, calls, lastFactory, lastContext,
           lastParse >>

factoryVars == << providers, instances, environment, calls, lastFactory, lastParse >>

\* lastParse before any direct call of parseModelString.
NoParse == [ called |-> FALSE, modelString |-> "", result |-> [ provider |-> "", modelName |-> "" ] ]

\* lastContext when the last step built no context block.
NoContext == [ built |-> FALSE, text |-> "" ]

\* The error of a call that threw none.
NoFailure == [ name |-> "none" ]

\* lastFactory before any factory call.
NoFactoryCall ==
  [ op |-> "none", provider |-> "", outcome |-> "none", object |-> 0,
    error |-> NoFailure, initialized |-> FALSE, key |-> "", modelKey |-> "",
    suspended |-> FALSE ]

sessionVars == << conversationHistory, sessionLog, turns, lineBuffer,
                  promptShown, linesRead, lastStep, processExit, lastContext >>

\* Responses that match none of the completion, stopping or strong patterns.
PlainResponses ==
  { r \in Responses :
      /\ ~hasExplicitCompletionSignal(r)
      /\ ~SomeIncluded(completionPatterns, ToLowerCase(r))
      /\ ~SomeIncluded(stoppingPatterns, ToLowerCase(r)) }

\* The responses sent to the task that runs into the step ceiling.
CeilingResponses ==
  PlainResponses \cap { "Working on it", "Now I will create package.json" }

WithinBounds(t) ==
  /\ Len(t.completedSteps) <= MaxCompleted
  /\ Len(t.nextSteps) <= MaxNext
  /\ Len(t.toolsUsed) <= MaxToolsUsed

\* lastCall records the method the driver of the TaskManager called last,
\* with its arguments, the state it was called in and whether completed
\* steps had been accumulated by then.
Call(op, arg, toolUsed, t) ==
  [ op |-> op, arg |-> arg, toolUsed |-> toolUsed,
    from |-> t.state, had |-> (Len(t.completedSteps) > 0) ]

NoCall == Call("none", "", Undefined, NewTaskManager)

\* The errors a turn catches.  ProviderError of providers/types.ts extends
\* Error, not ApplicationError, and carries a recoverable flag.
ProviderError(recoverable) ==
  [ name |-> "ProviderError", message |-> "provider", isApplicationError |-> FALSE,
    recoverable |-> recoverable ]

\* An Error thrown by a model call; it has no recoverable property, which
\* reads as false.
PlainError ==
  [ name |-> "Error", message |-> "model call failed", isApplicationError |-> FALSE,
    recoverable |-> FALSE ]

\* The Error the two-minute timer of generateTextWithTimeout rejects with.
TimeoutError ==
  [ name |-> "Error", message |-> "Tool operation timeout after 2 minutes",
    isApplicationError |-> FALSE, recoverable |-> FALSE ]

NoError ==
  [ name |-> "none", message |-> "", isApplicationError |-> FALSE, recoverable |-> TRUE ]

\* What getModelFromString rejects with.
ModelErrors == { ProviderError(recoverable) : recoverable \in BOOLEAN }

\* What generateText rejects with.
GenerateErrors == { PlainError }

\* What generateTextWithTimeout rejects with: an error of generateText, or the
\* timer's error when generateText has not settled within the two minutes.
PrimaryErrors == GenerateErrors \cup { TimeoutError }

\* handleError taking the process down on an error that is not recoverable,
\* whatever its class.
handleError_AnyClass(error, context) ==
  [ printed |-> TRUE, exit |-> ~error.recoverable ]

\* handleError(error, context): the error is printed, and the process exits
\* when it is an ApplicationError that is not recoverable.
handleError(error, context) ==
  [ printed |-> TRUE, exit |-> (error.isApplicationError /\ ~error.recoverable) ]

\* lastStep records, for the last step of the session, the task state in which
\* it evaluated getCompletionStatus ("none" when it did not), the error
\* it handed to handleError with its context ("none" when it caught none), and
\* whether it printed "Multi-step task completed".
Step(checked, context, error) ==
  [ checked |-> checked, context |-> context, error |-> error, line |-> "none",
    announced |-> FALSE ]

\* The step that printed the completion announcement when announced holds.
Announce(step, announced) == [ step EXCEPT !.announced = announced ]

\* The step of the "line" handler that read prompt: line is the trimmed line
\* ("none" for the steps that read no line).
Read(step, prompt) == [ step EXCEPT !.line = prompt ]

NoStep == Step("none", "none", NoError)

(***************************************************************************)
(* The TaskManager driven through its public methods.                      *)
(***************************************************************************)

Init ==
  /\ taskManager = NewTaskManager
  /\ conversationHistory = << >>
  /\ sessionLog = << >>
  /\ turns = {}
  /\ lineBuffer = ""
  /\ promptShown = TRUE
  /\ linesRead = 0
  /\ lastCall = NoCall
  /\ lastStep = NoStep
  /\ processExit = "running"
  /\ providers = << >>
  /\ instances = << >>
  /\ environment = ""
  /\ calls = {}
  /\ lastFactory = NoFactoryCall
  /\ lastContext = NoContext
  /\ lastParse = NoParse

CallStartTask(description) ==
  /\ taskManager' = startTask(taskManager, description)
  /\ lastCall' = Call("startTask", description, Undefined, taskManager)
  /\ UNCHANGED << sessionVars, factoryVars >>

\* The task manager becomes t, within the bounds of the model.
SetTaskManager(t) == WithinBounds(t) /\ taskManager' = t

CallRecordToolUse(toolName) ==
  /\ SetTaskManager(recordToolUse(taskManager, toolName))
  /\ lastCall' = Call("recordToolUse", toolName, Undefined, taskManager)
  /\ UNCHANGED << sessionVars, factoryVars >>

CallProcessResponse(response, toolUsed, limit) ==
  /\ taskManager.stepCount < limit
  /\ SetTaskManager(processResponse(taskManager, response, toolUsed))
  /\ lastCall' = Call("processResponse", response, toolUsed, taskManager)
  /\ UNCHANGED << sessionVars, factoryVars >>

CallResetTask ==
  /\ taskManager' = resetTask(taskManager)
  /\ lastCall' = Call("resetTask", "", Undefined, taskManager)
  /\ UNCHANGED << sessionVars, factoryVars >>

CallForceComplete ==
  /\ taskManager' = forceComplete(taskManager)
  /\ lastCall' = Call("forceComplete", "", Undefined, taskManager)
  /\ UNCHANGED << sessionVars, factoryVars >>

TMNext ==
  \/ \E d \in Descriptions : CallStartTask(d)
  \/ \E n \in ToolNames : CallRecordToolUse(n)
  \/ \E r \in Responses, u \in ToolNames \cup {Undefined} :
       CallProcessResponse(r, u, MaxCalls)
  \/ CallResetTask
  \/ CallForceComplete

TMSpec == Init /\ [][TMNext]_vars

(***************************************************************************)
(* A freshly started task that receives processResponse calls only, with   *)
(* responses holding no completion phrase.                                 *)
(***************************************************************************)

CeilingInit ==
  /\ taskManager = startTask(NewTaskManager, "Create a project called demo")
  /\ conversationHistory = << >>
  /\ sessionLog = << >>
  /\ turns = {}
  /\ lineBuffer = ""
  /\ promptShown = TRUE
  /\ linesRead = 0
  /\ lastCall = NoCall
  /\ lastStep = NoStep
  /\ processExit = "running"
  /\ providers = << >>
  /\ instances = << >>
  /\ environment = ""
  /\ calls = {}
  /\ lastFactory = NoFactoryCall
  /\ lastContext = NoContext
  /\ lastParse = NoParse

CeilingNext ==
  \E r \in CeilingResponses, u \in { "write_file", Undefined } :
    CallProcessResponse(r, u, CeilingCalls)

CeilingSpec == CeilingInit /\ [][CeilingNext]_vars

(***************************************************************************)
(* The interactive session: runInteractiveSession, its "line" handler and  *)
(* processUserInput.  A turn is one execution of processUserInput; it is   *)
(* suspended at each await and resumed by the action of the awaited call.  *)
(***************************************************************************)

UserMessage(prompt) == [ role |-> "user", content |-> prompt, toolUsed |-> Undefined ]

\* The number of messages buildConversationContext keeps.
historyWindow == 10

\* arr.slice(0, n): the first n elements.
SliceLast_First(arr, n) == SubSeq(arr, 1, IF Len(arr) > n THEN n ELSE Len(arr))

\* arr.slice(-n): the last n elements, all of them when there are fewer.
SliceLast(arr, n) == SubSeq(arr, IF Len(arr) > n THEN Len(arr) - n + 1 ELSE 1, Len(arr))

\* The line of a message in the context block; the time of the message is
\* written as [time].
MessageLine(msg) == "[time] " \o ToUpperCase(msg.role) \o ": " \o msg.content

\* What the forEach of buildConversationContext adds for one message.
RenderMessage(msg) ==
  MessageLine(msg) \o "\n" \o
  ( IF Truthy(msg.toolUsed) THEN "[time] TOOL_USED: " \o msg.toolUsed \o "\n" ELSE "" )

RECURSIVE RenderMessages(_)
RenderMessages(msgs) ==
  IF Len(msgs) = 0 THEN ""
  ELSE RenderMessage(Head(msgs)) \o RenderMessages(Tail(msgs))

\* The task part of the context block.
RenderTaskContext(taskContext) ==
  "\nCURRENT TASK CONTEXT:\n"
    \o "Task: " \o taskContext.taskDescription \o "\n"
    \o "Completed Steps: " \o Join(taskContext.completedSteps, ", ") \o "\n"
    \o "Next Steps: " \o Join(taskContext.nextSteps, ", ") \o "\n"

buildConversationContext(history, t) ==
  IF Len(history) = 0 THEN ""
  ELSE "\n\nCONVERSATION HISTORY:\n"
         \o RenderMessages(SliceLast(history, historyWindow))
         \o ( IF isTaskActive(t) THEN RenderTaskContext(getTaskContext(t)) ELSE "" )

\* lastContext of a step that called buildConversationContext, and of one
\* that did not.
Built(text) == [ built |-> TRUE, text |-> text ]

ContextNotBuilt == lastContext' = NoContext

AssistantMessage(content, toolUsed) ==
  [ role |-> "assistant", content |-> content, toolUsed |-> toolUsed ]

LogEntry(kind, text) == [ kind |-> kind, text |-> text ]

\* The results generateText may resolve to: text, tool calls and tool results.
GenerateResults ==
  { [ text |-> x, toolCalls |-> << >>, toolResults |-> << >> ] :
      x \in ModelTexts \cup {""} }
  \cup
  { [ text |-> "", toolCalls |-> << "write_file" >>,
      toolResults |-> << [ toolName |-> "write_file", isError |-> e ] >> ] :
      e \in BOOLEAN }
  \cup
  { [ text |-> "Working on it", toolCalls |-> << >>,
      toolResults |-> << [ toolName |-> Undefined, isError |-> FALSE ] >> ],
    [ text |-> "Working on it", toolCalls |-> << "write_file" >>,
      toolResults |-> << >> ] }

\* JSON.stringify of a summary result whose text is empty.
StringifiedSummary == "{\"text\":\"\"}"

\* The first tool name of a result: toolResults[0].toolName || toolCalls[0].toolName
\* || "unknown-tool", undefined when the result names no tool at all.
ResultToolName(result) ==
  LET called == IF Len(result.toolCalls) > 0 THEN result.toolCalls[1] ELSE Undefined
  IN IF Len(result.toolResults) > 0
     THEN IF Truthy(result.toolResults[1].toolName) THEN result.toolResults[1].toolName
          ELSE IF Truthy(called) THEN called
          ELSE "unknown-tool"
     ELSE called

\* What both branches of processUserInput do with the assistant response:
\* processResponse, getCompletionStatus, then resetTask or the continuation
\* check.  continue tells whether the continuation branch was taken.
CheckStatus(t, response, toolUsed) ==
  IF getCompletionStatus(t).isComplete
  THEN [ tm |-> resetTask(t), announced |-> TRUE, continue |-> FALSE,
         checked |-> t.state ]
  ELSE IF shouldContinueAutomatically(t, response, toolUsed)
  THEN [ tm |-> t, announced |-> FALSE, continue |-> TRUE, checked |-> t.state ]
  ELSE [ tm |-> t, announced |-> FALSE, continue |-> FALSE, checked |-> t.state ]

AfterResponse(t, response, toolUsed) ==
  CheckStatus(processResponse(t, response, toolUsed), response, toolUsed)

\* The continuation branch without its rl.write.
ContinuationPrefill_NoWrite(buffer) == buffer

\* The input line after the continuation branch's rl.write("continue").
ContinuationPrefill(buffer) == buffer \o "continue"

Running == processExit = "running"

\* A step that catches no error: the process goes on.
Proceed(step) == lastStep' = step /\ UNCHANGED processExit

\* A catch block handing the error to handleError.
Catch(error, context) ==
  /\ lastStep' = Step("none", context, error)
  /\ processExit' = IF handleError(error, context).exit THEN "exit 1" ELSE processExit

\* A turn going on to its next await with the call it awaited left in flight.
Resume_Overlapping(turn, next) == turns' = turns \cup {next}

\* An await of the turn has resolved and the turn goes on to its next await.
Resume(turn, next) == turns' = (turns \ {turn}) \cup {next}

\* The end of processUserInput without its rl.prompt().
EndTurn_NoPrompt(turn) ==
  /\ turns' = turns \ {turn}
  /\ UNCHANGED promptShown

\* The end of processUserInput: the turn is over and, unless it is an
\* auto-continuation, rl.prompt() is called.
EndTurn(turn) ==
  /\ turns' = turns \ {turn}
  /\ promptShown' = IF turn.isAutoContinuation THEN promptShown ELSE TRUE

\* The end of a turn whose response went through the task manager: the
\* continuation branch (rl.write, rl.prompt, return) or the end of
\* processUserInput.
FinishResponse(turn, after) ==
  /\ SetTaskManager(after.tm)
  /\ Proceed(Announce(Step(after.checked, "none", NoError), after.announced))
  /\ IF after.continue
     THEN /\ lineBuffer' = ContinuationPrefill(lineBuffer)
          /\ promptShown' = TRUE
          /\ turns' = turns \ {turn}
     ELSE /\ EndTurn(turn)
          /\ UNCHANGED lineBuffer

\* The test for the completion command accepting /status as well.
IsCompleteCommand_AlsoStatus(prompt) ==
  prompt = "/complete" \/ prompt = "/done" \/ prompt = "/status"

\* prompt === "/complete" || prompt === "/done"
IsCompleteCommand(prompt) == prompt = "/complete" \/ prompt = "/done"

\* processUserInput(prompt) up to its first await.  The turn remembers in
\* before the task manager as it was when its line was read.
BeginTurn(prompt) ==
  /\ sessionLog' = Append(sessionLog, LogEntry("user", prompt))
  /\ conversationHistory' = Append(conversationHistory, UserMessage(prompt))
  /\ taskManager' = IF isMultiStepTask(prompt)
                    THEN startTask(taskManager, prompt) ELSE taskManager
  /\ turns' = turns \cup
       { [ id |-> linesRead + 1, pc |-> "model", prompt |-> prompt,
           isAutoContinuation |-> FALSE, toolName |-> Undefined,
           before |-> taskManager ] }
  /\ promptShown' = FALSE
  /\ lastContext' = Built(buildConversationContext(conversationHistory', taskManager'))
  /\ Proceed(Read(NoStep, prompt))

\* rl.on("line"): the user submits a line.
Line(line) ==
  LET prompt == Trim(line)
  IN /\ Running
     /\ linesRead < MaxLines
     /\ linesRead' = linesRead + 1
     /\ lineBuffer' = ""
     /\ UNCHANGED << lastCall, factoryVars >>
     /\ ( prompt = "" \/ IsCompleteCommand(prompt) \/ prompt \in { "/status", "/help" } )
          => ContextNotBuilt
     /\ IF prompt = ""
        THEN /\ promptShown' = TRUE
             /\ Proceed(Read(NoStep, prompt))
             /\ UNCHANGED << taskManager, conversationHistory, sessionLog, turns >>
        ELSE IF IsCompleteCommand(prompt)
        THEN /\ taskManager' = IF isTaskActive(taskManager)
                               THEN forceComplete(taskManager) ELSE taskManager
             /\ promptShown' = TRUE
             /\ Proceed(Read(NoStep, prompt))
             /\ UNCHANGED << conversationHistory, sessionLog, turns >>
        ELSE IF prompt = "/status"
        THEN /\ promptShown' = TRUE
             /\ Proceed(Read(IF isTaskActive(taskManager)
                             THEN Step(taskManager.state, "none", NoError)
                             ELSE NoStep,
                             prompt))
             /\ UNCHANGED << taskManager, conversationHistory, sessionLog, turns >>
        ELSE IF prompt = "/help"
        THEN /\ promptShown' = TRUE
             /\ Proceed(Read(NoStep, prompt))
             /\ UNCHANGED << taskManager, conversationHistory, sessionLog, turns >>
        ELSE Cardinality(turns) < MaxInFlight /\ BeginTurn(prompt)

\* await ProviderFactory.getModelFromString resolves for the primary call.
ModelResolved(turn) ==
  /\ Running
  /\ ContextNotBuilt
  /\ turn.pc = "model"
  /\ Resume(turn, [ turn EXCEPT !.pc = "generate" ])
  /\ Proceed(NoStep)
  /\ UNCHANGED << taskManager, conversationHistory, sessionLog, lineBuffer,
                  promptShown, linesRead, lastCall, factoryVars >>

\* getModelFromString rejects: handleError, rl.prompt(), return.
ModelFailed(turn, error) ==
  /\ Running
  /\ ContextNotBuilt
  /\ turn.pc = "model"
  /\ EndTurn(turn)
  /\ Catch(error, IF error.name = "ProviderError"
                  THEN "model selection" ELSE "model initialization")
  /\ UNCHANGED << taskManager, conversationHistory, sessionLog, lineBuffer,
                  linesRead, lastCall, factoryVars >>

\* generateTextWithTimeout resolves with a result.
GenerateReturns(turn, result) ==
  LET hasToolCalls == Len(result.toolCalls) > 0
      toolName == ResultToolName(result)
      hasToolResult == Len(result.toolResults) > 0
      assistantResponse == IF Trim(result.text) # "" /\ ~hasToolCalls
                           THEN result.text ELSE ""
      logged == IF assistantResponse # ""
                THEN Append(sessionLog, LogEntry("agent", result.text))
                ELSE sessionLog
  IN /\ Running
     /\ ContextNotBuilt
     /\ turn.pc = "generate"
     /\ UNCHANGED << linesRead, lastCall, factoryVars >>
     /\ IF hasToolResult /\ Truthy(toolName)
        THEN /\ SetTaskManager(recordToolUse(taskManager, toolName))
             /\ sessionLog' = Append(logged, LogEntry("tool", toolName))
             /\ Proceed(NoStep)
             /\ Resume(turn, [ turn EXCEPT !.pc = "summaryModel",
                                            !.toolName = toolName ])
             /\ UNCHANGED << conversationHistory, lineBuffer, promptShown >>
        ELSE IF assistantResponse # ""
        THEN /\ sessionLog' = logged
             /\ conversationHistory' =
                  Append(conversationHistory, AssistantMessage(assistantResponse, Undefined))
             /\ FinishResponse(turn, AfterResponse(taskManager, assistantResponse, Undefined))
        ELSE /\ EndTurn(turn)
             /\ Proceed(NoStep)
             /\ UNCHANGED << taskManager, conversationHistory, sessionLog, lineBuffer >>

\* generateTextWithTimeout rejects, by an error of the call or by the
\* two-minute timer: handleError, then the end of processUserInput.
GenerateFails(turn, error) ==
  /\ Running
  /\ ContextNotBuilt
  /\ turn.pc = "generate"
  /\ EndTurn(turn)
  /\ Catch(error, "text generation")
  /\ UNCHANGED << taskManager, conversationHistory, sessionLog, lineBuffer,
                  linesRead, lastCall, factoryVars >>

\* getModelFromString resolves for the summary call.
SummaryModelResolved(turn) ==
  /\ Running
  /\ lastContext' = Built(buildConversationContext(conversationHistory, taskManager))
  /\ turn.pc = "summaryModel"
  /\ Resume(turn, [ turn EXCEPT !.pc = "summary" ])
  /\ Proceed(NoStep)
  /\ UNCHANGED << taskManager, conversationHistory, sessionLog, lineBuffer,
                  promptShown, linesRead, lastCall, factoryVars >>

\* getModelFromString rejects for the summary call: handleError, return.
SummaryModelFailed(turn, error) ==
  /\ Running
  /\ ContextNotBuilt
  /\ turn.pc = "summaryModel"
  /\ turns' = turns \ {turn}
  /\ Catch(error, "summary model selection")
  /\ UNCHANGED << taskManager, conversationHistory, sessionLog, lineBuffer,
                  promptShown, linesRead, lastCall, factoryVars >>

\* The summary generateText resolves with a text.
SummaryReturns(turn, text) ==
  LET summaryResponse == IF Trim(text) # "" THEN text ELSE StringifiedSummary
  IN /\ Running
     /\ ContextNotBuilt
     /\ turn.pc = "summary"
     /\ sessionLog' = Append(sessionLog, LogEntry("agent", summaryResponse))
     /\ conversationHistory' =
          Append(conversationHistory, AssistantMessage(summaryResponse, turn.toolName))
     /\ FinishResponse(turn, AfterResponse(taskManager, summaryResponse, turn.toolName))
     /\ UNCHANGED << linesRead, lastCall, factoryVars >>

\* The summary generateText rejects: handleError, then the end of processUserInput.
SummaryFails(turn, error) ==
  /\ Running
  /\ ContextNotBuilt
  /\ turn.pc = "summary"
  /\ EndTurn(turn)
  /\ Catch(error, "tool summary generation")
  /\ UNCHANGED << taskManager, conversationHistory, sessionLog, lineBuffer,
                  linesRead, lastCall, factoryVars >>

\* rl.on("close"): the input has ended; process.exit(0).
Close ==
  /\ Running
  /\ ContextNotBuilt
  /\ processExit' = "exit 0"
  /\ lastStep' = NoStep
  /\ UNCHANGED << taskManager, conversationHistory, sessionLog, turns, lineBuffer,
                  promptShown, linesRead, lastCall, factoryVars >>

Next ==
  \/ \E line \in Inputs \cup {lineBuffer} : Line(line)
  \/ \E turn \in turns : ModelResolved(turn)
  \/ \E turn \in turns, error \in ModelErrors : ModelFailed(turn, error)
  \/ \E turn \in turns, result \in GenerateResults : GenerateReturns(turn, result)
  \/ \E turn \in turns, error \in PrimaryErrors : GenerateFails(turn, error)
  \/ \E turn \in turns : SummaryModelResolved(turn)
  \/ \E turn \in turns, error \in ModelErrors : SummaryModelFailed(turn, error)
  \/ \E turn \in turns, text \in ModelTexts \cup {""} : SummaryReturns(turn, text)
  \/ \E turn \in turns, error \in GenerateErrors : SummaryFails(turn, error)
  \/ Close

Spec == Init /\ [][Next]_vars

\* The two-minute timer of generateTextWithTimeout fires.
TimerFires == \E turn \in turns : GenerateFails(turn, TimeoutError)

\* A pending getModelFromString settles.
ModelSettles == \E turn \in turns : ModelResolved(turn) \/ SummaryModelResolved(turn)

\* The session with the steps the program takes by itself: a started timer
\* fires unless its call settled first, and the local work of
\* getModelFromString ends.  The returns of the model calls are the network's.
TimerSpec == Init /\ [][Next]_vars /\ WF_vars(TimerFires) /\ WF_vars(ModelSettles)

(***************************************************************************)
(* buildConversationContext over histories of up to MaxHistory messages,   *)
(* with and without an active task.                                        *)
(***************************************************************************)

ContextMessages ==
  { UserMessage("build the docs"), AssistantMessage("Done", "write_file") }

ContextInit ==
  /\ taskManager \in { NewTaskManager, startTask(NewTaskManager, "build the docs") }
  /\ conversationHistory = << >>
  /\ sessionLog = << >>
  /\ turns = {}
  /\ lineBuffer = ""
  /\ promptShown = TRUE
  /\ linesRead = 0
  /\ lastCall = NoCall
  /\ lastStep = NoStep
  /\ processExit = "running"
  /\ providers = << >>
  /\ instances = << >>
  /\ environment = ""
  /\ calls = {}
  /\ lastFactory = NoFactoryCall
  /\ lastContext = NoContext
  /\ lastParse = NoParse

\* conversationHistory.push(message).
PushMessage(message) ==
  /\ Len(conversationHistory) < MaxHistory
  /\ conversationHistory' = Append(conversationHistory, message)
  /\ ContextNotBuilt
  /\ UNCHANGED << taskManager, sessionLog, turns, lineBuffer, promptShown, linesRead,
                  lastCall, lastStep, processExit, factoryVars >>

\* A call of buildConversationContext().
BuildContext ==
  /\ lastContext' = Built(buildConversationContext(conversationHistory, taskManager))
  /\ UNCHANGED << taskManager, conversationHistory, sessionLog, turns, lineBuffer,
                  promptShown, linesRead, lastCall, lastStep, processExit, factoryVars >>

ContextNext ==
  \/ \E message \in ContextMessages : PushMessage(message)
  \/ BuildContext

ContextSpec == ContextInit /\ [][ContextNext]_vars

(***************************************************************************)
(* The provider factory (providers/provider-factory.ts) and the providers  *)
(* it constructs, driven through getProvider and getModelFromString.  A    *)
(* call that has to import its provider module is suspended at the import  *)
(* and resumed when the import settles, so calls may overlap.              *)
(***************************************************************************)

\* The first two parts only.
ParsedParts_SecondPart(parts) ==
  [ provider |-> ToLowerCase(parts[1]), modelName |-> parts[2] ]

\* The provider and the model name of the parts of a model string that has
\* a "/".
ParsedParts(parts) ==
  [ provider |-> ToLowerCase(parts[1]), modelName |-> Join(Tail(parts), "/") ]

\* parseModelString as the code computes it.
ParseModelString(modelString) ==
  IF ~Occurs(modelString, "/")
  THEN [ provider |-> "openai", modelName |-> modelString ]
  ELSE ParsedParts(Split(modelString, "/"))

\* parseModelString of the model strings of the model, computed once.
ParsedTable == [ m \in ModelStrings |-> ParseModelString(m) ]

ParsedIn(table, modelString) ==
  IF modelString \in DOMAIN table THEN table[modelString]
  ELSE ParseModelString(modelString)

parseModelString(modelString) == ParsedIn(ParsedTable, modelString)

\* No object: undefined or null.
NoObject == 0

\* The function Object, which every plain object inherits as its property
\* "constructor".
ObjectFunction == -1

\* obj[key] of a plain object with the own properties own: an own property,
\* else the property inherited from Object.prototype, else undefined.
PropertyOf(own, key) ==
  IF key \in DOMAIN own THEN own[key]
  ELSE IF key = "constructor" THEN ObjectFunction
  ELSE NoObject

\* ProviderFactory.providerModules: 1 stands for the import function of a
\* registered provider.
providerModules ==
  [ name \in { "openai", "anthropic", "google", "openrouter" } |-> 1 ]

\* new ProviderError(message, provider, recoverable) of providers/types.ts.
NewProviderError(message, provider, recoverable) ==
  [ name |-> "ProviderError", message |-> message, provider |-> provider,
    recoverable |-> recoverable ]

\* An error that is not a ProviderError: the TypeError of calling a method the
\* object does not have, or the Error of a require that finds no module.
OtherError(name, message) == [ name |-> name, message |-> message ]

\* A provider object as its constructor leaves it.
NewProvider(kind) == [ kind |-> kind, apiKey |-> "", client |-> "" ]

\* requiresApiKey() answering true for every provider.
requiresApiKey_Always(provider) == TRUE

\* requiresApiKey(): true for the OpenRouter provider only.
requiresApiKey(provider) == provider.kind = "openrouter"

\* OpenRouterProvider.initialize(keys): the provider after the call and the
\* environment variable.
initialize(provider, env, keys) ==
  IF keys.openrouter # ""
  THEN [ provider |-> [ provider EXCEPT !.apiKey = keys.openrouter ],
         env |-> keys.openrouter, error |-> NoFailure ]
  ELSE [ provider |-> provider, env |-> env, error |-> NoFailure ]

\* OpenRouterProvider.initializeClient(): the client is created with the key
\* the provider holds, else with the key of the environment; sdkLoads tells
\* whether require finds the SDK module.
initializeClient(provider, env, sdkLoads) ==
  IF ~sdkLoads
  THEN [ provider |-> provider, env |-> env,
         error |-> NewProviderError("OpenRouter provider is not available",
                                    "openrouter", TRUE) ]
  ELSE IF provider.apiKey = "" /\ env = ""
  THEN [ provider |-> provider, env |-> env,
         error |-> NewProviderError("OpenRouter API key not provided",
                                    "openrouter", TRUE) ]
  ELSE [ provider |-> [ provider EXCEPT !.client =
                          IF provider.apiKey # "" THEN provider.apiKey ELSE env ],
         env |-> env, error |-> NoFailure ]

\* getModel(modelName) of a provider: OpenRouter creates its client when it
\* has none and asks the client for the model, the other providers require
\* their SDK and ask it for the model.
getModel(provider, env, sdkLoads) ==
  IF provider.kind = "openrouter"
  THEN IF provider.client = ""
       THEN initializeClient(provider, env, sdkLoads)
       ELSE [ provider |-> provider, env |-> env, error |-> NoFailure ]
  ELSE IF sdkLoads
  THEN [ provider |-> provider, env |-> env, error |-> NoFailure ]
  ELSE [ provider |-> provider, env |-> env,
         error |-> OtherError("Error", "Cannot find module") ]

\* getModel of the provider init.provider, in the environment init.env.
ModelAfter(init, sdkLoads) == getModel(init.provider, init.env, sdkLoads)

\* The catch of getModelFromString rethrowing whatever it caught.
WrapError_Rethrow(error, providerName) == error

\* The catch of getModelFromString: a ProviderError is rethrown, any other
\* error is wrapped in a recoverable ProviderError of the parsed provider.
WrapError(error, providerName) ==
  IF error.name = "ProviderError" THEN error
  ELSE NewProviderError("Error getting model", providerName, TRUE)

\* The cache left as it is.
CacheProvider_Skip(cache, normalizedName, object) == cache

\* this.providers[normalizedName] = provider.
CacheProvider(cache, normalizedName, object) ==
  [ name \in DOMAIN cache \cup {normalizedName} |->
      IF name = normalizedName THEN object ELSE cache[name] ]

\* What lastFactory records of a call: its method, the provider name it was
\* given or parsed, its outcome ("pending", "returned" or "threw"), the
\* provider object it returned or used, the error it threw, whether it called
\* initialize, the OpenRouter key of its keys argument, the key of the
\* client behind the model it returned, and whether the call settled after
\* having been suspended at the import of the provider module.
FactoryCall(op, provider, outcome, object, error, initialized, key, modelKey, suspended) ==
  [ op |-> op, provider |-> provider, outcome |-> outcome, object |-> object,
    error |-> error, initialized |-> initialized, key |-> key,
    modelKey |-> modelKey, suspended |-> suspended ]

\* The state after a factory step that constructs and changes no provider.
FactoryUnchanged == UNCHANGED << providers, instances, environment >>

\* The identifier of a new pending call.
FreeId == CHOOSE id \in 1..(MaxPending + 1) : \A call \in calls : call.id # id

\* A call of op for providerName, to be suspended at the import of the module.
Pending(op, providerName, keys) ==
  [ id |-> FreeId, op |-> op, provider |-> providerName, keys |-> keys,
    suspended |-> FALSE ]

\* lastFactory of a getModelFromString call that threw error.
Threw(call, object, error, initialized) ==
  FactoryCall(call.op, call.provider, "threw", object,
              WrapError(error, call.provider), initialized,
              call.keys.openrouter, "", call.suspended)

\* The state after initialize (when required) and getModel have run on the
\* provider object: after is what getModel left.
AfterGetModel(call, object, base, requires, after) ==
  /\ instances' = [ base EXCEPT ![object] = after.provider ]
  /\ environment' = after.env
  /\ lastFactory' =
       IF after.error = NoFailure
       THEN FactoryCall(call.op, call.provider, "returned", object, NoFailure,
                        requires, call.keys.openrouter, after.provider.client,
                        call.suspended)
       ELSE Threw(call, object, after.error, requires)

\* initialize(keys) when the provider requires it, then getModel.
InitializedModel(provider, requires, keys, sdkLoads) ==
  ModelAfter(IF requires THEN initialize(provider, environment, keys)
             ELSE [ provider |-> provider, env |-> environment,
                    error |-> NoFailure ],
             sdkLoads)

\* The rest of getModelFromString once getProvider has given it the provider
\* numbered object of base: requiresApiKey, initialize, getModel, and the
\* catch around them.  The Object function is no provider: calling its
\* requiresApiKey is a TypeError.
UseProvider(call, object, base, sdkLoads) ==
  IF object < 0
  THEN /\ lastFactory' =
            Threw(call, object,
                  OtherError("TypeError", "provider.requiresApiKey is not a function"),
                  FALSE)
       /\ instances' = base
       /\ UNCHANGED environment
  ELSE AfterGetModel(call, object, base, requiresApiKey(base[object]),
                     InitializedModel(base[object], requiresApiKey(base[object]),
                                      call.keys, sdkLoads))

\* getProvider(providerName) up to its await: the cached provider is
\* returned, an unregistered name is refused, else the module is imported.
GetProvider(providerName) ==
  LET normalizedName == ToLowerCase(providerName)
      cached == PropertyOf(providers, normalizedName)
  IN /\ UNCHANGED << taskManager, lastCall, sessionVars, lastParse >>
     /\ FactoryUnchanged
     /\ IF cached # NoObject
        THEN /\ lastFactory' = FactoryCall("getProvider", providerName, "returned",
                                           cached, NoFailure, FALSE, "", "", FALSE)
             /\ UNCHANGED calls
        ELSE IF PropertyOf(providerModules, normalizedName) = NoObject
        THEN /\ lastFactory' =
                  FactoryCall("getProvider", providerName, "threw", NoObject,
                              NewProviderError("Unsupported AI provider",
                                               providerName, FALSE),
                              FALSE, "", "", FALSE)
             /\ UNCHANGED calls
        ELSE /\ Cardinality(calls) < MaxPending
             /\ calls' = calls \cup
                  { Pending("getProvider", providerName, [ openrouter |-> "" ]) }
             /\ lastFactory' = FactoryCall("getProvider", providerName, "pending",
                                           NoObject, NoFailure, FALSE, "", "",
                                           FALSE)

\* getModelFromString(modelString, keys) up to the import of its provider's
\* module; with a cached provider there is no import and the call goes on
\* with the provider it found in the cache.
GetModelFromString(modelString, keys, sdkLoads) ==
  LET call == Pending("getModelFromString",
                      parseModelString(modelString).provider, keys)
      cached == PropertyOf(providers, ToLowerCase(call.provider))
  IN /\ UNCHANGED << taskManager, lastCall, sessionVars, lastParse, providers >>
     /\ IF cached # NoObject
        THEN /\ UseProvider(call, cached, instances, sdkLoads)
             /\ UNCHANGED calls
        ELSE IF PropertyOf(providerModules, ToLowerCase(call.provider)) = NoObject
        THEN /\ lastFactory' =
                  Threw(call, NoObject,
                        NewProviderError("Unsupported AI provider",
                                         call.provider, FALSE),
                        FALSE)
             /\ UNCHANGED << calls, instances, environment >>
        ELSE /\ Cardinality(calls) < MaxPending
             /\ calls' = calls \cup {call}
             /\ lastFactory' = FactoryCall("getModelFromString", call.provider,
                                           "pending", NoObject, NoFailure, FALSE,
                                           keys.openrouter, "", FALSE)
             /\ UNCHANGED << instances, environment >>

\* The import of a pending call resolves: the provider is constructed and
\* cached, and returned to the caller of getProvider or used by
\* getModelFromString.
ImportResolves(call, sdkLoads) ==
  LET normalizedName == ToLowerCase(call.provider)
      object == Len(instances) + 1
  IN /\ Len(instances) < MaxInstances
     /\ UNCHANGED << taskManager, lastCall, sessionVars, lastParse >>
     /\ providers' = CacheProvider(providers, normalizedName, object)
     /\ calls' = calls \ {call}
     /\ IF call.op = "getProvider"
        THEN /\ instances' = Append(instances, NewProvider(normalizedName))
             /\ lastFactory' = FactoryCall("getProvider", call.provider, "returned",
                                           object, NoFailure, FALSE, "", "", TRUE)
             /\ UNCHANGED environment
        ELSE UseProvider([ call EXCEPT !.suspended = TRUE ], object,
                         Append(instances, NewProvider(normalizedName)), sdkLoads)

\* The import of a pending call rejects: a recoverable ProviderError.
ImportRejects(call) ==
  /\ UNCHANGED << taskManager, lastCall, sessionVars, lastParse >>
  /\ FactoryUnchanged
  /\ calls' = calls \ {call}
  /\ lastFactory' =
       IF call.op = "getProvider"
       THEN FactoryCall("getProvider", call.provider, "threw", NoObject,
                        NewProviderError("Failed to load provider",
                                         call.provider, TRUE),
                        FALSE, "", "", TRUE)
       ELSE Threw([ call EXCEPT !.suspended = TRUE ], NoObject,
                  NewProviderError("Failed to load provider", call.provider, TRUE),
                  FALSE)

FactoryInit ==
  /\ taskManager = NewTaskManager
  /\ conversationHistory = << >>
  /\ sessionLog = << >>
  /\ turns = {}
  /\ lineBuffer = ""
  /\ promptShown = TRUE
  /\ linesRead = 0
  /\ lastCall = NoCall
  /\ lastStep = NoStep
  /\ processExit = "running"
  /\ providers = << >>
  /\ instances = << >>
  /\ environment \in { "", "sk-env" }
  /\ calls = {}
  /\ lastFactory = NoFactoryCall
  /\ lastContext = NoContext
  /\ lastParse = NoParse

FactoryNext ==
  \/ \E providerName \in ProviderNames : GetProvider(providerName)
  \/ \E modelString \in ModelStrings, keys \in KeySets, sdkLoads \in BOOLEAN :
       GetModelFromString(modelString, keys, sdkLoads)
  \/ \E call \in calls, sdkLoads \in BOOLEAN : ImportResolves(call, sdkLoads)
  \/ \E call \in calls : ImportRejects(call)

FactorySpec == FactoryInit /\ [][FactoryNext]_vars

(***************************************************************************)
(* parseModelString called directly with every string of up to             *)
(* MaxModelLen characters of ParseChars.                                   *)
(***************************************************************************)

ParseChars == { "a", "B", "/" }

RECURSIVE StringsOfLen(_)
StringsOfLen(n) ==
  IF n = 0 THEN { "" }
  ELSE { c \o rest : c \in ParseChars, rest \in StringsOfLen(n - 1) }

ParseStrings == UNION { StringsOfLen(n) : n \in 0..MaxModelLen }

\* ProviderFactory.parseModelString(modelString).
CallParseModelString(modelString) ==
  /\ lastParse' = [ called |-> TRUE, modelString |-> modelString,
                    result |-> parseModelString(modelString) ]
  /\ UNCHANGED << taskManager, lastCall, sessionVars, providers, instances,
                  environment, calls, lastFactory >>

ParseNext == \E modelString \in ParseStrings : CallParseModelString(modelString)

ParseSpec == FactoryInit /\ [][ParseNext]_vars

(***************************************************************************)
(* Properties.                                                             *)
(***************************************************************************)

\* The task was active when the last method was called on it.
CalledOnActiveTask == lastCall.from \in {IN_PROGRESS, AWAITING_TOOL}

\* C1: after processResponse(response, toolUsed), if getCompletionStatus()
\* reports isComplete then shouldContinueAutomatically(response, toolUsed)
\* is false.
C1_CompleteNeverContinues ==
  lastCall.op = "processResponse" =>
    ( getCompletionStatus(taskManager).isComplete =>
        ~shouldContinueAutomatically(taskManager, lastCall.arg, lastCall.toolUsed) )

\* C2: at most one execution of processUserInput is in progress at any time.
C2_OneTurnAtATime == Cardinality(turns) <= 1

\* A step in which a turn handed its assistant response to the task manager.
ResponseStep ==
  /\ Len(conversationHistory') = Len(conversationHistory) + 1
  /\ conversationHistory'[Len(conversationHistory')].role = "assistant"

\* A response step after which the task is active, not complete, and
\* shouldContinueAutomatically holds for the response just processed.
ContinuationStep ==
  /\ ResponseStep
  /\ isTaskActive(taskManager')
  /\ ~getCompletionStatus(taskManager').isComplete
  /\ LET msg == conversationHistory'[Len(conversationHistory')]
     IN shouldContinueAutomatically(taskManager', msg.content, msg.toolUsed)

TurnIds(ts) == { turn.id : turn \in ts }

C4_CeilingReasonCited ==
  taskManager.stepCount = maxSteps =>
    /\ getCompletionStatus(taskManager).isComplete
    /\ getCompletionStatus(taskManager).reason = ReasonMaxSteps

\* C5: an active task that has reached the no-tool ceiling is not complete
\* unless the response carries an explicit completion signal.
C5_NoToolCeilingNeedsSignal ==
  ( /\ lastCall.op = "processResponse"
    /\ CalledOnActiveTask
    /\ taskManager.stepCount < maxSteps
    /\ ~hasExplicitCompletionSignal(lastCall.arg) )
  => ~getCompletionStatus(taskManager).isComplete

\* C6: with no task active and a prompt that is not a multi-step task, the
\* step in which the turn receives a plain text answer returns to the prompt
\* and leaves every field of the task manager as it was.
C6_PlainTurnLeavesTaskManager ==
  [][ \A turn \in turns :
        ( /\ turn.pc = "generate"
          /\ ~isMultiStepTask(turn.prompt)
          /\ ~isTaskActive(taskManager)
          /\ turn.id \notin TurnIds(turns')
          /\ ResponseStep )
        => (taskManager' = taskManager /\ promptShown') ]_vars

\* C7: the step in which a line starts a multi-step task leaves the task
\* IN_PROGRESS with all counters 0 and nothing in the lists but the steps
\* derived from the new description.
C7_StartTaskStartsFresh ==
  [][ \A turn \in turns' :
        ( turn.id \notin TurnIds(turns) /\ isMultiStepTask(turn.prompt) )
        => /\ taskManager'.state = IN_PROGRESS
           /\ taskManager'.stepCount = 0
           /\ taskManager'.consecutiveNonToolResponses = 0
           /\ taskManager'.lastResponseWithoutTools = 0
           /\ taskManager'.completedSteps = << >>
           /\ taskManager'.toolsUsed = << >>
           /\ taskManager'.nextSteps =
                analyzeTaskRequirements(NewTaskManager, turn.prompt).nextSteps ]_vars

\* C8: startTask called while a task is IN_PROGRESS leaves a task context
\* with no completed steps and only the next steps derived from the new
\* description.
C8_StartTaskDiscardsSteps ==
  [][ ( taskManager.state = IN_PROGRESS /\ lastCall'.op = "startTask" )
      => /\ taskManager'.state = IN_PROGRESS
         /\ getTaskContext(taskManager').taskDescription = lastCall'.arg
         /\ getTaskContext(taskManager').completedSteps = << >>
         /\ getTaskContext(taskManager').nextSteps =
              analyzeTaskRequirements(NewTaskManager, lastCall'.arg).nextSteps ]_vars

\* C8 witness: startTask was called on an IN_PROGRESS task that had completed
\* steps, and the new context shows none.
C8_Witness ==
  /\ lastCall.op = "startTask"
  /\ lastCall.from = IN_PROGRESS
  /\ lastCall.had
  /\ getTaskContext(taskManager).completedSteps = << >>

\* C9: processResponse on an active task with a response containing
\* "task is complete" leaves the state COMPLETED, with or without a tool.
C9_TaskIsCompleteCompletes ==
  ( /\ lastCall.op = "processResponse"
    /\ CalledOnActiveTask
    /\ Includes(ToLowerCase(lastCall.arg), "task is complete") )
  => taskManager.state = COMPLETED

\* C10: processResponse on an active task, with no continuation tool used,
\* completes the task when the response matches a strong-completion phrase
\* or a stopping phrase.
C10_EitherSetCompletes ==
  ( /\ lastCall.op = "processResponse"
    /\ CalledOnActiveTask
    /\ ~IsContinuationTool(lastCall.toolUsed)
    /\ \/ SomeIncluded(strongCompletionPatterns, ToLowerCase(lastCall.arg))
       \/ SomeIncluded(stoppingPatterns, ToLowerCase(lastCall.arg)) )
  => taskManager.state = COMPLETED

\* The response holds a completion or stopping phrase, none of them strong.
WeakCompletionPhrase(response) ==
  /\ \/ SomeIncluded(completionPatterns, ToLowerCase(response))
     \/ SomeIncluded(stoppingPatterns, ToLowerCase(response))
  /\ ~hasExplicitCompletionSignal(response)

C12_StoppingPhraseStopsContinuation ==
  lastCall.op = "processResponse" =>
    ( ( \/ ~isTaskActive(taskManager)
        \/ taskManager.stepCount >= maxSteps
        \/ SomeIncluded(stoppingPatterns, ToLowerCase(lastCall.arg)) )
      => ~shouldContinueAutomatically(taskManager, lastCall.arg, lastCall.toolUsed) )

\* C13: no completion check is evaluated while the task state is
\* AWAITING_TOOL.
C13_NoCheckWhileAwaitingTool == lastStep.checked # AWAITING_TOOL

\* C14: the state enters AWAITING_TOOL only by recordToolUse called in
\* IN_PROGRESS, and recordToolUse called in any other state leaves the state
\* as it was.
C14_AwaitingToolOnlyFromInProgress ==
  [][ /\ ( taskManager'.state = AWAITING_TOOL /\ taskManager.state # AWAITING_TOOL )
         => ( lastCall'.op = "recordToolUse" /\ taskManager.state = IN_PROGRESS )
      /\ ( lastCall'.op = "recordToolUse" /\ taskManager.state # IN_PROGRESS )
         => taskManager'.state = taskManager.state
      /\ ( lastCall'.op = "recordToolUse" /\ taskManager.state = IN_PROGRESS )
         => taskManager'.state = AWAITING_TOOL ]_vars

\* C14 witness: recordToolUse was called in IN_PROGRESS and the task awaits
\* the tool.
C14_Witness ==
  /\ lastCall.op = "recordToolUse"
  /\ lastCall.from = IN_PROGRESS
  /\ taskManager.state = AWAITING_TOOL

\* C15: a COMPLETED task stays COMPLETED under every method other than
\* resetTask and startTask.
C15_CompletedIsTerminal ==
  [][ ( taskManager.state = COMPLETED
        /\ lastCall'.op \in {"recordToolUse", "processResponse", "forceComplete"} )
      => taskManager'.state = COMPLETED ]_vars

\* C15 witness: processResponse was called on a COMPLETED task and changed
\* its counters, and the task is still COMPLETED.
C15_Witness ==
  /\ lastCall.op = "processResponse"
  /\ lastCall.from = COMPLETED
  /\ taskManager.stepCount > 1
  /\ taskManager.state = COMPLETED

\* The step caught an error and handed it to handleError.
ErrorStep == lastStep'.context # "none"

\* C16: an unrecoverable error caught during an active task moves the task
\* state to FAILED.
C16_UnrecoverableErrorFailsTask ==
  [][ ( /\ ErrorStep
        /\ lastStep'.error.name = "ProviderError"
        /\ ~lastStep'.error.recoverable
        /\ isTaskActive(taskManager) )
      => taskManager'.state = FAILED ]_vars

\* C17: startTask and resetTask set the step counter to 0, and under every
\* other method the step counter does not decrease.
C17_StepCountMonotone ==
  [][ /\ lastCall'.op \in {"startTask", "resetTask"}
         => taskManager'.stepCount = 0
      /\ lastCall'.op \in {"recordToolUse", "processResponse", "forceComplete"}
         => taskManager'.stepCount >= taskManager.stepCount ]_vars

\* C17 witness: resetTask was called on a task that had counted steps, and
\* the counter is 0.
C17_Witness ==
  /\ lastCall.op = "resetTask"
  /\ lastCall.had
  /\ taskManager.stepCount = 0

\* C18: every error caught while processing a turn is appended to the session
\* log as an agent-error entry.
C18_CaughtErrorIsLogged ==
  [][ ErrorStep
      => /\ Len(sessionLog') = Len(sessionLog) + 1
         /\ sessionLog'[Len(sessionLog')].kind = "error" ]_vars

\* C19: no error path ends a human turn without displaying the prompt again.
C19_ErrorRedisplaysPrompt ==
  [][ \A turn \in turns :
        ( /\ ErrorStep
          /\ turn \notin turns'
          /\ ~turn.isAutoContinuation )
        => promptShown' ]_vars

\* C20: no caught error ends the process; the process ends only on
\* end-of-input, with exit code 0.
C20_OnlyCloseExits ==
  [][ /\ ErrorStep => processExit' = "running"
      /\ processExit' # processExit
         => ( ~ErrorStep /\ processExit' = "exit 0" ) ]_vars

\* C20 witness: an unrecoverable error has been caught and the process is
\* still running.
C20_Witness ==
  /\ lastStep.context # "none"
  /\ ~lastStep.error.recoverable
  /\ processExit = "running"

\* A catch block of the primary getModelFromString call ends the step.
ModelFailedStep ==
  lastStep'.context \in {"model selection", "model initialization"}

\* C21: when model resolution fails on a turn, the task manager is exactly as
\* it was before the turn's line was read.
C21_ModelFailureLeavesTaskManager ==
  [][ \A turn \in turns :
        ( ModelFailedStep /\ turn \notin turns' )
        => taskManager' = turn.before ]_vars

\* The turns started by this step from the text the continuation branch wrote
\* into the input line.
ContinuationTurns ==
  { turn \in turns' \ turns : lineBuffer # "" /\ turn.prompt = Trim(lineBuffer) }

\* C22: the turn that runs the synthesized continuation input does not append
\* that input to the conversation history, does not write it to the session
\* log as a user prompt, and does not call startTask.
C22_ContinuationTurnIsNotHuman ==
  [][ ContinuationTurns # {}
      => /\ conversationHistory' = conversationHistory
         /\ sessionLog' = sessionLog
         /\ taskManager' = taskManager ]_vars

\* The turns of ts that are awaiting at pc.
TurnsAt(ts, pc) == { turn \in ts : turn.pc = pc }

\* Every turn of turns' that came to await at pc by this step was awaiting at
\* from before the step, and that earlier await is no longer pending.
EnteredOnlyFrom(pc, from) ==
  \A turn \in TurnsAt(turns', pc) \ turns :
    \E prev \in TurnsAt(turns, from) : prev.id = turn.id /\ prev \notin turns'

\* C23: a turn awaits only its primary call (model handle, then generateText)
\* or, on a tool turn, its summary call (model handle, then generateText); the
\* summary call is entered only from the returned primary call, and a turn
\* never has two calls pending at once.
C23_CallsOfATurnNeverOverlap ==
  [][ /\ \A turn \in turns' :
           /\ turn.pc \in {"model", "generate", "summaryModel", "summary"}
           /\ turn.pc \in {"summaryModel", "summary"} => Truthy(turn.toolName)
      /\ \A t1 \in turns', t2 \in turns' : t1.id = t2.id => t1 = t2
      /\ EnteredOnlyFrom("generate", "model")
      /\ EnteredOnlyFrom("summaryModel", "generate")
      /\ EnteredOnlyFrom("summary", "summaryModel") ]_vars

\* C23 witness: a tool turn is awaiting its summary generateText.
C23_Witness ==
  \E turn \in turns : turn.pc = "summary" /\ Truthy(turn.toolName)

\* The timer of generateTextWithTimeout has rejected the primary call.
TimeoutStep == lastStep'.error = TimeoutError

\* C24: when the primary model call times out, the turn ends with the error
\* reported, the process keeps running and the prompt is displayed.
C24_TimeoutReturnsToPrompt ==
  [][ TimeoutStep
      => /\ lastStep'.context = "text generation"
         /\ handleError(lastStep'.error, lastStep'.context).printed
         /\ \E turn \in TurnsAt(turns, "generate") : turns' = turns \ {turn}
         /\ processExit' = "running"
         /\ promptShown' ]_vars

\* C24 witness: the last step was a timeout of the primary call, the process
\* is running and the prompt is displayed.
C24_Witness ==
  /\ lastStep.error = TimeoutError
  /\ processExit = "running"
  /\ promptShown

\* C25: for each provider name at most one provider object is ever
\* constructed, overlapping getProvider calls included.
C25_OneObjectPerProvider ==
  \A i \in DOMAIN instances, j \in DOMAIN instances :
    instances[i].kind = instances[j].kind => i = j

\* This step is a call of getProvider (not the settling of a suspended one).
GetProviderStep ==
  /\ lastFactory'.op = "getProvider"
  /\ ~lastFactory'.suspended

\* C26: a getProvider call made right after a getProvider call returned an
\* object for the same name, in whatever letter case, returns that object.
C26_SuccessiveCallsReturnSameObject ==
  [][ ( /\ lastFactory.op = "getProvider"
        /\ lastFactory.outcome = "returned"
        /\ GetProviderStep
        /\ ToLowerCase(lastFactory'.provider) = ToLowerCase(lastFactory.provider) )
      => /\ lastFactory'.outcome = "returned"
         /\ lastFactory'.object = lastFactory.object ]_vars

\* C26 witness: getProvider("OpenAI") has returned, without importing, the
\* provider object an earlier call cached under "openai".
C26_Witness ==
  /\ lastFactory.op = "getProvider"
  /\ lastFactory.provider = "OpenAI"
  /\ lastFactory.outcome = "returned"
  /\ ~lastFactory.suspended
  /\ lastFactory.object > 0
  /\ instances[lastFactory.object].kind = "openai"

\* C27: getProvider with a name that has no registered implementation fails
\* with the unsupported-provider error and leaves the provider cache unchanged.
C27_UnregisteredNameIsRefused ==
  [][ ( /\ GetProviderStep
        /\ ToLowerCase(lastFactory'.provider) \notin DOMAIN providerModules )
      => /\ lastFactory'.outcome = "threw"
         /\ lastFactory'.error.message = "Unsupported AI provider"
         /\ providers' = providers ]_vars

\* C28: a getModel that follows initialize(keys) with an OpenRouter key uses
\* that key, also when the provider was initialized with another key before.
C28_ModelUsesLatestKey ==
  ( /\ lastFactory.op = "getModelFromString"
    /\ lastFactory.outcome = "returned"
    /\ lastFactory.initialized
    /\ lastFactory.key # "" )
  => lastFactory.modelKey = lastFactory.key

\* C29: a getModelFromString call that got its provider calls initialize
\* exactly when the provider is the OpenRouter provider, and calls it before
\* getModel: the model of a provider constructed by the call is made with the
\* key of the call.  A call that got no provider calls no initialize.
C29_InitializeIffRequired ==
  ( /\ lastFactory.op = "getModelFromString"
    /\ lastFactory.outcome \in {"returned", "threw"} )
  => IF lastFactory.object > 0
     THEN /\ lastFactory.initialized
             <=> instances[lastFactory.object].kind = "openrouter"
          /\ ( /\ lastFactory.outcome = "returned"
               /\ lastFactory.initialized
               /\ lastFactory.suspended
               /\ lastFactory.key # "" )
             => lastFactory.modelKey = lastFactory.key
     ELSE ~lastFactory.initialized

\* C29 witness: getModelFromString has constructed the OpenRouter provider,
\* initialized it with the key of the call and returned a model made with it.
C29_Witness ==
  /\ lastFactory.op = "getModelFromString"
  /\ lastFactory.outcome = "returned"
  /\ lastFactory.initialized
  /\ lastFactory.suspended
  /\ lastFactory.key = "sk-1"
  /\ lastFactory.modelKey = "sk-1"

\* C30: every failure of getModelFromString is a ProviderError that carries
\* the provider name parsed from the model string and a recoverable flag.
C30_FailuresAreProviderErrors ==
  ( /\ lastFactory.op = "getModelFromString"
    /\ lastFactory.outcome = "threw" )
  => /\ lastFactory.error.name = "ProviderError"
     /\ lastFactory.error.provider = lastFactory.provider
     /\ lastFactory.error.recoverable \in BOOLEAN

\* C30 witness: getModelFromString has failed in getModel with an error that
\* was no ProviderError, and the caller got it wrapped.
C30_Witness ==
  /\ lastFactory.op = "getModelFromString"
  /\ lastFactory.outcome = "threw"
  /\ lastFactory.provider = "openai"
  /\ lastFactory.object > 0
  /\ lastFactory.error.message = "Error getting model"

\* The kinds of the entries this step appends to the session log.
AppendedKinds ==
  [ i \in 1..(Len(sessionLog') - Len(sessionLog)) |->
      sessionLog'[Len(sessionLog) + i].kind ]

\* C31: the session-log entries of a turn come in the order user prompt, tool
\* used, agent response, at most one of each: a step of a turn appends at most
\* one entry, the user prompt is appended by the step that starts the turn,
\* the tool entry by the step that goes on to the summary call, and the agent
\* response by a step that ends the turn.
C31_LogOrderWithinTurn ==
  [][ /\ AppendedKinds \in { << >>, << "user" >>, << "tool" >>, << "agent" >> }
      /\ AppendedKinds = << "user" >> => TurnIds(turns') \ TurnIds(turns) # {}
      /\ AppendedKinds = << "tool" >>
           => \E turn \in TurnsAt(turns', "summaryModel") : turn \notin turns
      /\ AppendedKinds = << "agent" >> => TurnIds(turns) \ TurnIds(turns') # {} ]_vars

\* The commands of the "line" handler.
Commands == { "/status", "/complete", "/done", "/help" }

\* C32: a command line starts no turn (no model call) and appends nothing to
\* the conversation history or the session log; /status and /help leave the
\* task manager unchanged, /complete and /done change it at most by
\* forceComplete.
C32_CommandsBypassModel ==
  [][ lastStep'.line \in Commands
      => /\ turns' = turns
         /\ conversationHistory' = conversationHistory
         /\ sessionLog' = sessionLog
         /\ lastStep'.line \in { "/status", "/help" } => taskManager' = taskManager
         /\ taskManager' \in { taskManager, forceComplete(taskManager) } ]_vars

\* C32 witness: /complete has been read during an active task and has
\* completed it, with a turn of the task still awaiting its model call.
C32_Witness ==
  /\ lastStep.line = "/complete"
  /\ taskManager.state = COMPLETED
  /\ turns # {}

\* C33: the context block built for an empty history is the empty string, and
\* the one built for a history of n messages holds the lines of exactly its
\* last min(n, 10) messages, oldest first.
IsMessageLine(l) ==
  /\ Len(l) >= 7
  /\ SubSeq(l, 1, 7) = "[time] "
  /\ ~ ( Len(l) >= 17 /\ SubSeq(l, 1, 17) = "[time] TOOL_USED:" )

MessageLinesOf(text) == SelectSeq(Split(text, "\n"), IsMessageLine)

LastMessages(history) ==
  LET n == Len(history)
      k == IF n < 10 THEN n ELSE 10
  IN [ i \in 1..k |-> MessageLine(history[n - k + i]) ]

C33_ContextHoldsLastTen ==
  lastContext.built
    => /\ Len(conversationHistory) = 0 => lastContext.text = ""
       /\ MessageLinesOf(lastContext.text) = LastMessages(conversationHistory)

C33_Witness ==
  /\ lastContext.built
  /\ Len(conversationHistory) = 11
  /\ conversationHistory[1] # conversationHistory[11]

\* C34: parseModelString of a string without "/" is the provider openai and
\* the whole string as model name; of a string with "/" it is the lower-cased
\* text before the first "/" as provider and all the text after the first
\* "/", later "/" included, as model name.
C34_ParseSplitsOnFirstSlash ==
  lastParse.called
    => LET s == lastParse.modelString
           i == IndexOf(s, "/")
       IN lastParse.result =
            IF i = 0
            THEN [ provider |-> "openai", modelName |-> s ]
            ELSE [ provider |-> ToLowerCase(SubSeq(s, 1, i - 1)),
                   modelName |-> SubSeq(s, i + 1, Len(s)) ]

C34_Witness ==
  /\ lastParse.called
  /\ lastParse.modelString = "B/a/a"
  /\ lastParse.result = [ provider |-> "b", modelName |-> "a/a" ]

\* C35: a step of a turn that changes the task manager changes the task that
\* was current when the turn issued its model call; a task started by a later
\* line is not changed by an earlier turn.
IssuedTaskDescription(turn) ==
  IF isMultiStepTask(turn.prompt) THEN turn.prompt ELSE turn.before.taskDescription

C35_UpdatesReachOnlyIssuingTask ==
  [][ \A turn \in turns :
        ( turn \notin turns' /\ taskManager' # taskManager )
          => taskManager.taskDescription = IssuedTaskDescription(turn) ]_vars

\* C36: every turn that waits for the summary call ends, or the process
\* exits, also when the summary call never returns.
C36_SummaryTurnEnds ==
  \A id \in 1..MaxLines :
    ( \E turn \in TurnsAt(turns, "summary") : turn.id = id )
      ~> ( id \notin TurnIds(turns) \/ ~Running )

\* C37: in every state getCompletionStatus().isComplete holds exactly when
\* the state is COMPLETED, which is exactly when getTaskContext().isComplete
\* holds.
C37_CompletionViewsAgree ==
  /\ getCompletionStatus(taskManager).isComplete <=> taskManager.state = COMPLETED
  /\ taskManager.state = COMPLETED <=> getTaskContext(taskManager).isComplete

\* C38: a completion is announced only in a session in which startTask has
\* been called, so that the announcements never outnumber the started tasks.
\* startTask is called once for every logged user prompt that is a
\* multi-step task.
StartTaskCalls(log) ==
  Cardinality({ i \in DOMAIN log : log[i].kind = "user" /\ isMultiStepTask(log[i].text) })

C38_AnnouncementNeedsStartedTask ==
  [][ lastStep'.announced => StartTaskCalls(sessionLog') >= 1 ]_vars

\* C39: the step in which a turn ends without an error appends exactly one
\* assistant message to the conversation history and has called
\* processResponse, whatever the model returned.
C39_SuccessfulTurnRecordsResponse ==
  [][ \A turn \in turns :
        ( turn.id \notin TurnIds(turns') /\ lastStep'.error = NoError )
          => /\ Len(conversationHistory') = Len(conversationHistory) + 1
             /\ conversationHistory'[Len(conversationHistory')].role = "assistant"
             /\ lastStep'.checked # "none" ]_vars

====
